---- MODULE Spec2Model ----
(***************************************************************************)
(* Model of Data_Collector/Log_Reg_Classifier.py: the corpus loader        *)
(* (process_post, construct_data), the two vectorizers, the stratified     *)
(* k-fold trainer/evaluator (classify_kfold) and the module-level script.  *)
(*                                                                         *)
(* Text is a sequence of one-character strings; a file is its content.     *)
(***************************************************************************)
EXTENDS Integers, Sequences, FiniteSets, TLC

VARIABLES
    pc,              \* position of the module-level script
    err,             \* the exception that ended the run, or None
    dep_fnames,      \* line 251
    non_dep_fnames,  \* line 252
    cd,              \* frame of construct_data: file_names, data, index
    data,            \* line 258
    labels,          \* line 275
    X_counts,        \* line 282
    count_eval,      \* line 285
    X_tfidf,         \* line 302
    tfidf_eval,      \* line 305
    kf,              \* frame of classify_kfold
    steps,           \* history: the calls made so far, in order
    reads,           \* history: the paths opened by process_post, in order
    passed,          \* history: the texts and labels the calls were given
    fold_log,        \* history: what each fold trained on, scored on and returned
    post_pc, post_in, post_out   \* process_post called on its own

postvars == <<post_pc, post_in, post_out>>
globals == <<dep_fnames, non_dep_fnames, data, labels, X_counts, count_eval, X_tfidf, tfidf_eval>>
mainvars == <<pc, err, globals, cd, kf, steps, reads, passed, fold_log>>
vars == <<mainvars, postvars>>

(***************************************************************************)
(* Bounds of the model.                                                    *)
(***************************************************************************)
MaxFileLen == 5
MaxFiles == 2

(***************************************************************************)
(* Configuration constants, lines 20-36.  KFOLD_SPLITS is 10 in the source *)
(* and is scaled down here so that directories of MaxFiles files can be    *)
(* split; the printed "/10" is not modelled.                               *)
(***************************************************************************)
DEP == "./mixed_depression"
NON_DEP == "./mixed_non_depression"
NGRAM_MAX == 3
KFOLD_SPLITS == 2

(***************************************************************************)
(* Characters.  HI stands for one byte >= 0x80 (0xE9); UHI1, UHI2 are the  *)
(* two bytes of its UTF-8 encoding once it is read as a Latin-1 code point.*)
(***************************************************************************)
SP == " "
NL == "\n"
BS == "\\"
BEL == "BEL"
HI == "E9"
UHI1 == "C3"
UHI2 == "A9"

Whitespace == {SP, NL}

None == [none |-> TRUE]

RECURSIVE Flatten(_)
Flatten(ss) == IF ss = <<>> THEN <<>> ELSE Head(ss) \o Flatten(Tail(ss))

RECURSIVE lstrip(_)
lstrip(s) ==
    IF s = <<>> THEN <<>>
    ELSE IF Head(s) \in Whitespace THEN lstrip(Tail(s))
    ELSE s

RECURSIVE rstrip(_)
rstrip(s) ==
    IF s = <<>> THEN <<>>
    ELSE IF s[Len(s)] \in Whitespace THEN rstrip(SubSeq(s, 1, Len(s) - 1))
    ELSE s

\* str.strip()
strip(s) == rstrip(lstrip(s))

\* what the escape sequence of a backslash and the character c decodes to
unescape(c) ==
    CASE c = NL -> <<>>
      [] c = BS -> <<BS>>
      [] c = "n" -> <<NL>>
      [] c = "a" -> <<BEL>>
      [] OTHER -> <<BS, c>>

\* line.decode('unicode-escape'): bytes are read as Latin-1 code points and
\* backslash escapes are interpreted; out is what was decoded so far.
\* [ok |-> FALSE] is UnicodeDecodeError (a backslash ends the string).
RECURSIVE decode_loop(_, _)
decode_loop(s, out) ==
    IF s = <<>> THEN [ok |-> TRUE, val |-> out]
    ELSE IF Head(s) # BS THEN decode_loop(Tail(s), Append(out, Head(s)))
    ELSE IF Len(s) = 1 THEN [ok |-> FALSE, val |-> <<>>]
    ELSE decode_loop(SubSeq(s, 3, Len(s)), out \o unescape(s[2]))

decode_unicode_escape(s) == decode_loop(s, <<>>)

\* u.encode('utf-8')
RECURSIVE encode_utf8(_)
encode_utf8(u) ==
    IF u = <<>> THEN <<>>
    ELSE (IF Head(u) = HI THEN <<UHI1, UHI2>> ELSE <<Head(u)>>) \o encode_utf8(Tail(u))

\* The body of the for loop of process_post (lines 52-57), from the lines
\* not yet read and the text built so far.
RECURSIVE process_post_loop(_, _)
process_post_loop(lines, text) ==
    IF lines = <<>> THEN [ok |-> TRUE, text |-> text]
    ELSE
        LET line == Head(lines) IN
        IF strip(line) # <<>> THEN
            LET d == decode_unicode_escape(line) IN
            IF ~d.ok THEN [ok |-> FALSE, text |-> <<>>]
            ELSE process_post_loop(Tail(lines), text \o strip(encode_utf8(d.val)) \o <<SP>>)
        ELSE process_post_loop(Tail(lines), text)

\* Iterating over the open file: the content cut after every NL.
RECURSIVE readlines(_, _)
readlines(content, line) ==
    IF content = <<>> THEN (IF line = <<>> THEN <<>> ELSE <<line>>)
    ELSE IF Head(content) = NL THEN <<Append(line, NL)>> \o readlines(Tail(content), <<>>)
    ELSE readlines(Tail(content), Append(line, Head(content)))

process_post_nosep(content) ==
    LET r == process_post_loop(readlines(content, <<>>), <<>>) IN
    IF r.ok /\ r.text # <<>> THEN [r EXCEPT !.text = SubSeq(r.text, 1, Len(r.text) - 1)]
    ELSE r

\* process_post(file_path), applied to the content of the file at file_path.
process_post(content) == process_post_loop(readlines(content, <<>>), <<>>)

(***************************************************************************)
(* The file system the script runs on.  A directory holds at most          *)
(* MaxFiles of the names below; the content of a file is fixed by its      *)
(* directory and name, so that two files of the same name differ.          *)
(***************************************************************************)
Names == {"f1", "f2", "f3", "f4"}

FileContent(dir, fn) ==
    IF dir = DEP THEN
        CASE fn = "f1" -> <<"s", "a", "d", NL, NL, SP, "s", "o", SP, "s", "a", "d", NL>>
          [] fn = "f2" -> <<"n", "o", BS, "n", NL>>
          [] fn = "f3" -> <<"a", SP, "b", NL>>
          [] OTHER     -> <<"s", "a", "d">>
    ELSE
        CASE fn = "f1" -> <<"o", "k", NL>>
          [] fn = "f2" -> <<SP, NL, "s", "o", SP, "o", "k", NL>>
          [] fn = "f3" -> <<"b", NL>>
          [] OTHER     -> <<"o", "k", BS>>

NameOrder == <<"f1", "f2", "f3", "f4">>

\* os.listdir(dir): the names of the directory, each once.  The order of a
\* listing is arbitrary; it is drawn in one order only, since the shuffle of
\* line 76 produces every order of the concatenated listings anyway.
Listings ==
    {SelectSeq(NameOrder, LAMBDA n : n \in S) :
        S \in {T \in SUBSET Names : Cardinality(T) <= MaxFiles}}

\* os.path.join(dir, fn)
path_join(dir, fn) == <<dir, fn>>

Range(f) == {f[x] : x \in DOMAIN f}

\* the bijections of 1..n
Perms(n) == {p \in [1..n -> 1..n] : Range(p) = 1..n}

\* random.shuffle(file_names): every order of the same elements
Shuffles(file_names) ==
    {[i \in 1..Len(file_names) |-> file_names[p[i]]] : p \in Perms(Len(file_names))}

\* file_names[index] in dep_fnames (line 91)
in_array(fn, fnames) == \E j \in 1..Len(fnames) : fnames[j] = fn

\* lines 91-102: the target and the path appended for the file name fn
target_of(fn, fnames) == IF in_array(fn, fnames) THEN 0 ELSE 1

filepath_of(fn, fnames, dep_dir, non_dep_dir) ==
    IF in_array(fn, fnames) THEN path_join(dep_dir, fn) ELSE path_join(non_dep_dir, fn)

(***************************************************************************)
(* Vectorizers (lines 116-147).  A matrix is the sequence of its rows; a   *)
(* row maps every n-gram of the vocabulary to its entry.                   *)
(***************************************************************************)
NonWordChars == {SP, NL, BS, BEL, UHI2}

\* token_pattern (?u)\b\w\w+\b: the maximal runs of two or more word characters
RECURSIVE tokenize(_, _)
tokenize(text, word) ==
    LET flush == IF Len(word) >= 2 THEN <<word>> ELSE <<>> IN
    IF text = <<>> THEN flush
    ELSE IF Head(text) \in NonWordChars THEN flush \o tokenize(Tail(text), <<>>)
    ELSE tokenize(Tail(text), Append(word, Head(text)))

\* the n-grams of a token sequence for n in 1..NGRAM_MAX, with repetitions
ngrams(tokens) ==
    Flatten([n \in 1..NGRAM_MAX |->
                [i \in 1..(IF Len(tokens) >= n THEN Len(tokens) - n + 1 ELSE 0) |->
                    SubSeq(tokens, i, i + n - 1)]])

analyze(text) == CHOOSE grams \in {ngrams(tokens) : tokens \in {tokenize(text, <<>>)}} : TRUE

\* the n-grams of every text
analyze_all(raw_data) == [i \in 1..Len(raw_data) |-> analyze(raw_data[i])]

vocabulary(docs) == UNION {Range(docs[i]) : i \in 1..Len(docs)}

count_of(g, grams) == Cardinality({i \in 1..Len(grams) : grams[i] = g})

\* CountVectorizer(...).fit_transform(raw_data); ValueError on an empty vocabulary
count_matrix(docs, V) ==
    IF V = {} THEN [ok |-> FALSE, x |-> <<>>]
    ELSE [ok |-> TRUE,
          x |-> [i \in 1..Len(docs) |-> [g \in V |-> count_of(g, docs[i])]]]

make_count_vectors(raw_data) ==
    CHOOSE r \in {count_matrix(docs, vocabulary(docs)) :
                    docs \in {analyze_all(raw_data)}} : TRUE

\* TfidfVectorizer(...).fit_transform(raw_data): the weight of an n-gram in a
\* row is a function of its count in the row (tf), of the number of rows it
\* occurs in (df) and of the number of rows (n); the entry keeps the three.
document_frequency(g, docs) ==
    Cardinality({i \in 1..Len(docs) : count_of(g, docs[i]) > 0})

tfidf_matrix(docs, V) ==
    IF V = {} THEN [ok |-> FALSE, x |-> <<>>]
    ELSE [ok |-> TRUE,
          x |-> [i \in 1..Len(docs) |->
                    [g \in V |-> [tf |-> count_of(g, docs[i]),
                                  df |-> document_frequency(g, docs),
                                  n |-> Len(docs)]]]]

make_tfidf_vectors(raw_data) ==
    CHOOSE r \in {tfidf_matrix(docs, vocabulary(docs)) :
                    docs \in {analyze_all(raw_data)}} : TRUE

(***************************************************************************)
(* Scores are rationals num/den; np.mean is the sum over the length.       *)
(***************************************************************************)
Rat(n, d) == [num |-> n, den |-> d]

RatAdd(a, b) == Rat(a.num * b.den + b.num * a.den, a.den * b.den)

RECURSIVE RatSum(_)
RatSum(l) == IF l = <<>> THEN Rat(0, 1) ELSE RatAdd(Head(l), RatSum(Tail(l)))

np_mean(l) == LET s == RatSum(l) IN Rat(s.num, s.den * Len(l))

(***************************************************************************)
(* StratifiedKFold(n_splits=KFOLD_SPLITS, shuffle=True).split(x, y).       *)
(* The first step of the iteration assigns every record its test fold,     *)
(* class by class: a class of at least KFOLD_SPLITS records is dealt out   *)
(* in folds of sizes differing by at most one (the larger ones first), the *)
(* records of a smaller class go to distinct folds.  It raises ValueError  *)
(* when no class has KFOLD_SPLITS records.                                 *)
(***************************************************************************)
class_count(y, c) == Cardinality({i \in 1..Len(y) : y[i] = c})

fold_size(count, f) ==
    (count \div KFOLD_SPLITS) + (IF f <= count % KFOLD_SPLITS THEN 1 ELSE 0)

split_ok(y) ==
    /\ Len(y) >= KFOLD_SPLITS
    /\ \E c \in Range(y) : class_count(y, c) >= KFOLD_SPLITS

test_folds_of(y) ==
    {tf \in [1..Len(y) -> 1..KFOLD_SPLITS] :
        \A c \in Range(y), f \in 1..KFOLD_SPLITS :
            LET m == Cardinality({i \in 1..Len(y) : y[i] = c /\ tf[i] = f}) IN
            IF class_count(y, c) >= KFOLD_SPLITS
            THEN m = fold_size(class_count(y, c), f)
            ELSE m <= 1}

\* the index arrays the iteration yields for fold indx (1-based)
test_indices_of(tf, indx) == {i \in DOMAIN tf : tf[i] = indx}
train_indices_of(tf, indx) == {i \in DOMAIN tf : tf[i] # indx}

\* x[indices]: the batch keeps, for every row, the index it was taken from
batch(x, indices) == [i \in indices |-> x[i]]

\* train_lr_model (lines 150-164): fit raises ValueError on a single class
train_lr_model(x_train, y_train) ==
    IF Cardinality(Range(y_train)) < 2 THEN [ok |-> FALSE, model |-> None]
    ELSE [ok |-> TRUE, model |-> [x_fit |-> x_train, y_fit |-> y_train]]

\* evaluate (lines 167-190).  pos is what the fitted model answers on x_test:
\* the test rows it gives class 1 (probability above one half).
\* roc_auc_score raises ValueError when y_test holds a single class.
evaluate(model, x_test, y_test, pos) ==
    LET T == DOMAIN x_test
        P == {i \in T : y_test[i] = 1}
        N == {i \in T : y_test[i] # 1}
        tp == Cardinality(P \cap pos)
        fp == Cardinality(N \cap pos)
        fn == Cardinality(P \ pos)
        correct == Cardinality({i \in T : (i \in pos) <=> (y_test[i] = 1)})
        ordered == Cardinality({pr \in P \X N : pr[1] \in pos /\ pr[2] \notin pos})
        tied == Cardinality({pr \in P \X N : (pr[1] \in pos) <=> (pr[2] \in pos)})
    IN
    IF Cardinality(Range(y_test)) < 2 THEN [ok |-> FALSE, ev |-> None]
    ELSE [ok |-> TRUE,
          ev |-> [cv |-> Rat(correct, Cardinality(T)),
                  roc |-> Rat(2 * ordered + tied, 2 * Cardinality(P \X N)),
                  precision |-> IF tp + fp = 0 THEN Rat(0, 1) ELSE Rat(tp, tp + fp),
                  recall |-> IF tp + fn = 0 THEN Rat(0, 1) ELSE Rat(tp, tp + fn),
                  fscore |-> IF tp = 0 THEN Rat(0, 1) ELSE Rat(2 * tp, 2 * tp + fp + fn),
                  supp |-> None]]

(***************************************************************************)
(* The script.                                                             *)
(***************************************************************************)
Step(op, run, fold) == [op |-> op, run |-> run, fold |-> fold]

MainIdle ==
    /\ err = None
    /\ dep_fnames = <<>>
    /\ non_dep_fnames = <<>>
    /\ cd = None
    /\ data = None
    /\ labels = <<>>
    /\ X_counts = <<>>
    /\ count_eval = None
    /\ X_tfidf = <<>>
    /\ tfidf_eval = None
    /\ kf = None
    /\ steps = <<>>
    /\ reads = <<>>
    /\ passed = <<>>
    /\ fold_log = <<>>
    /\ pc = "list_dep"

Init ==
    /\ MainIdle
    /\ post_pc = "idle"
    /\ post_in = <<>>
    /\ post_out = None

\* Raise with the exception caught and recorded, the run going on
Raise_Continue(exc) ==
    /\ err' = [exc |-> exc, at |-> pc]
    /\ UNCHANGED pc

\* an uncaught exception ends the run
Raise(exc) ==
    /\ pc' = "error"
    /\ err' = [exc |-> exc, at |-> pc]

\* line 251
ListDep ==
    /\ pc = "list_dep"
    /\ steps' = Append(steps, Step("listdir", DEP, 0))
    /\ \/ /\ \E l \in Listings : dep_fnames' = l
          /\ pc' = "list_non_dep"
          /\ UNCHANGED err
       \/ /\ Raise("OSError")
          /\ UNCHANGED dep_fnames
    /\ UNCHANGED <<non_dep_fnames, data, labels, X_counts, count_eval, X_tfidf, tfidf_eval>>
    /\ UNCHANGED <<cd, kf, reads, passed, fold_log, postvars>>

\* line 252
ListNonDep ==
    /\ pc = "list_non_dep"
    /\ steps' = Append(steps, Step("listdir", NON_DEP, 0))
    /\ \/ /\ \E l \in Listings : non_dep_fnames' = l
          /\ pc' = "construct_data"
          /\ UNCHANGED err
       \/ /\ Raise("OSError")
          /\ UNCHANGED non_dep_fnames
    /\ UNCHANGED <<dep_fnames, data, labels, X_counts, count_eval, X_tfidf, tfidf_eval>>
    /\ UNCHANGED <<cd, kf, reads, passed, fold_log, postvars>>

\* lines 70-84: the call of construct_data up to its loop
ConstructShuffle ==
    /\ pc = "construct_data"
    /\ \E file_names \in Shuffles(dep_fnames \o non_dep_fnames) :
          cd' = [filenames |-> file_names, filepath |-> <<>>, data |-> <<>>,
                 target |-> <<>>, index |-> 1]
    /\ pc' = "cd_loop"
    /\ steps' = Append(steps, Step("construct_data", "", 0))
    /\ UNCHANGED <<err, globals, kf, reads, passed, fold_log, postvars>>

\* lines 87-111: one iteration of the loop.  open() raises IOError on a file
\* that cannot be read and decode raises UnicodeDecodeError.
ConstructLoop ==
    /\ pc = "cd_loop"
    /\ cd.index <= Len(cd.filenames)
    /\ LET fn == cd.filenames[cd.index]
           target == target_of(fn, dep_fnames)
           f_path == filepath_of(fn, dep_fnames, DEP, NON_DEP)
           post == process_post(FileContent(f_path[1], f_path[2]))
       IN
       /\ reads' = Append(reads, f_path)
       /\ \/ /\ Raise("IOError")
             /\ cd' = [cd EXCEPT !.target = Append(@, target),
                                 !.filepath = Append(@, f_path)]
          \/ /\ ~post.ok
             /\ Raise("UnicodeDecodeError")
             /\ cd' = [cd EXCEPT !.target = Append(@, target),
                                 !.filepath = Append(@, f_path)]
          \/ /\ post.ok
             /\ cd' = [cd EXCEPT !.target = Append(@, target),
                                 !.filepath = Append(@, f_path),
                                 !.data = Append(@, post.text),
                                 !.index = @ + 1]
             /\ UNCHANGED <<pc, err>>
    /\ steps' = Append(steps, Step("process_post", "", cd.index))
    /\ UNCHANGED <<globals, kf, passed, fold_log, postvars>>

\* ConstructReturn with the return statement inside the loop
ConstructReturn_InLoop ==
    /\ pc = "cd_loop"
    /\ cd.index > 1 \/ Len(cd.filenames) = 0
    /\ data' = [filenames |-> cd.filenames, filepath |-> cd.filepath,
                data |-> cd.data, target |-> cd.target]
    /\ cd' = None
    /\ pc' = "labels"
    /\ steps' = Append(steps, Step("return_data", "", 0))
    /\ UNCHANGED <<err, dep_fnames, non_dep_fnames, labels, X_counts, count_eval,
                   X_tfidf, tfidf_eval, kf, reads, passed, fold_log, postvars>>

\* line 113 and the assignment of line 258
ConstructReturn ==
    /\ pc = "cd_loop"
    /\ cd.index > Len(cd.filenames)
    /\ data' = [filenames |-> cd.filenames, filepath |-> cd.filepath,
                data |-> cd.data, target |-> cd.target]
    /\ cd' = None
    /\ pc' = "labels"
    /\ steps' = Append(steps, Step("return_data", "", 0))
    /\ UNCHANGED <<err, dep_fnames, non_dep_fnames, labels, X_counts, count_eval,
                   X_tfidf, tfidf_eval, kf, reads, passed, fold_log, postvars>>

\* line 275
MakeLabels ==
    /\ pc = "labels"
    /\ labels' = data.target
    /\ pc' = "count_vectors"
    /\ steps' = Append(steps, Step("labels", "", 0))
    /\ UNCHANGED <<err, dep_fnames, non_dep_fnames, data, X_counts, count_eval,
                   X_tfidf, tfidf_eval, cd, kf, reads, passed, fold_log, postvars>>

\* MakeCountVectors with the first text popped off the Dataset
MakeCountVectors_Popping ==
    /\ pc = "count_vectors"
    /\ LET r == make_count_vectors(data.data) IN
       \/ /\ r.ok
          /\ X_counts' = r.x
          /\ pc' = "classify_count"
          /\ UNCHANGED err
       \/ /\ ~r.ok
          /\ Raise("ValueError")
          /\ UNCHANGED X_counts
    /\ data' = [data EXCEPT !.data = IF @ = <<>> THEN @ ELSE Tail(@)]
    /\ steps' = Append(steps, Step("vectorize", "count", 0))
    /\ passed' = Append(passed, [fn |-> "vectorize", run |-> "count",
                                 texts |-> data.data, labels |-> <<>>])
    /\ UNCHANGED <<dep_fnames, non_dep_fnames, labels, count_eval,
                   X_tfidf, tfidf_eval, cd, kf, reads, fold_log, postvars>>

\* line 282
MakeCountVectors ==
    /\ pc = "count_vectors"
    /\ LET r == make_count_vectors(data.data) IN
       \/ /\ r.ok
          /\ X_counts' = r.x
          /\ pc' = "classify_count"
          /\ UNCHANGED err
       \/ /\ ~r.ok
          /\ Raise("ValueError")
          /\ UNCHANGED X_counts
    /\ steps' = Append(steps, Step("vectorize", "count", 0))
    /\ passed' = Append(passed, [fn |-> "vectorize", run |-> "count",
                                 texts |-> data.data, labels |-> <<>>])
    /\ UNCHANGED <<dep_fnames, non_dep_fnames, data, labels, count_eval,
                   X_tfidf, tfidf_eval, cd, kf, reads, fold_log, postvars>>

\* line 302
MakeTfidfVectors ==
    /\ pc = "tfidf_vectors"
    /\ LET r == make_tfidf_vectors(data.data) IN
       \/ /\ r.ok
          /\ X_tfidf' = r.x
          /\ pc' = "classify_tfidf"
          /\ UNCHANGED err
       \/ /\ ~r.ok
          /\ Raise("ValueError")
          /\ UNCHANGED X_tfidf
    /\ steps' = Append(steps, Step("vectorize", "tfidf", 0))
    /\ passed' = Append(passed, [fn |-> "vectorize", run |-> "tfidf",
                                 texts |-> data.data, labels |-> <<>>])
    /\ UNCHANGED <<dep_fnames, non_dep_fnames, data, labels, X_counts, count_eval,
                   tfidf_eval, cd, kf, reads, fold_log, postvars>>

\* fold_batches with the train and the test indices exchanged
fold_batches_swapped(x, y, tf, indx) ==
    [x_train |-> batch(x, test_indices_of(tf, indx)),
     x_test  |-> batch(x, train_indices_of(tf, indx)),
     y_train |-> batch(y, test_indices_of(tf, indx)),
     y_test  |-> batch(y, train_indices_of(tf, indx))]

\* lines 219-220: the batches of fold indx
fold_batches(x, y, tf, indx) ==
    [x_train |-> batch(x, train_indices_of(tf, indx)),
     x_test  |-> batch(x, test_indices_of(tf, indx)),
     y_train |-> batch(y, train_indices_of(tf, indx)),
     y_test  |-> batch(y, test_indices_of(tf, indx))]

\* lines 229-234: the fold's values appended to the lists
fold_append(frame, fold_ev) ==
    [frame EXCEPT !.cv_mean = Append(@, fold_ev.cv),
                  !.roc_mean = Append(@, fold_ev.roc),
                  !.evaluation.precision = Append(@, fold_ev.precision),
                  !.evaluation.recall = Append(@, fold_ev.recall),
                  !.evaluation.fscore = Append(@, fold_ev.fscore)]

\* kfold_result with the sums in place of the means
kfold_result_sums(frame) ==
    [precision |-> frame.evaluation.precision,
     recall |-> frame.evaluation.recall,
     fscore |-> frame.evaluation.fscore,
     cv |-> RatSum(frame.cv_mean),
     roc |-> RatSum(frame.roc_mean)]

\* lines 237-241: the bunch classify_kfold returns
kfold_result(frame) ==
    [precision |-> frame.evaluation.precision,
     recall |-> frame.evaluation.recall,
     fscore |-> frame.evaluation.fscore,
     cv |-> np_mean(frame.cv_mean),
     roc |-> np_mean(frame.roc_mean)]

\* the loop of line 214 left after its first iteration
next_fold_pc_return(indx) == "kf_mean"

\* line 214: the iteration goes on to the next fold, or ends after the last
next_fold_pc(indx) == IF indx < KFOLD_SPLITS THEN "kf_train" ELSE "kf_mean"

\* lines 202-214: the call of classify_kfold (line 285 or 305) up to the
\* first step of the iteration over skf.split(x, y)
KfSplit ==
    /\ pc \in {"classify_count", "classify_tfidf"}
    /\ LET run == IF pc = "classify_count" THEN "count" ELSE "tfidf"
           frame == [run |-> run,
                     x |-> IF run = "count" THEN X_counts ELSE X_tfidf,
                     y |-> labels,
                     test_folds |-> <<>>,
                     indx |-> 1,
                     batches |-> None,
                     lr_model |-> None,
                     evaluation |-> [precision |-> <<>>, recall |-> <<>>, fscore |-> <<>>],
                     cv_mean |-> <<>>,
                     roc_mean |-> <<>>]
       IN
       /\ steps' = Append(steps, Step("classify_kfold", run, 0))
       /\ passed' = Append(passed, [fn |-> "classify_kfold", run |-> run,
                                    texts |-> <<>>, labels |-> frame.y])
       /\ \/ /\ split_ok(frame.y)
             /\ \E tf \in test_folds_of(frame.y) : kf' = [frame EXCEPT !.test_folds = tf]
             /\ pc' = "kf_train"
             /\ UNCHANGED err
          \/ /\ ~split_ok(frame.y)
             /\ kf' = frame
             /\ Raise("ValueError")
    /\ UNCHANGED <<globals, cd, reads, fold_log, postvars>>

\* lines 216-223: the batches of the fold, then train_lr_model
KfTrain ==
    /\ pc = "kf_train"
    /\ LET b == fold_batches(kf.x, kf.y, kf.test_folds, kf.indx)
           r == train_lr_model(b.x_train, b.y_train)
       IN
       /\ kf' = [kf EXCEPT !.batches = b, !.lr_model = r.model]
       /\ \/ /\ r.ok
             /\ pc' = "kf_eval"
             /\ UNCHANGED err
          \/ /\ ~r.ok
             /\ Raise("ValueError")
    /\ steps' = Append(steps, Step("train", kf.run, kf.indx))
    /\ UNCHANGED <<globals, cd, reads, passed, fold_log, postvars>>

\* lines 226-234: evaluate, then the appends; the loop goes on to the next fold
KfEvaluate ==
    /\ pc = "kf_eval"
    /\ \E pos \in SUBSET (DOMAIN kf.batches.x_test) :
          LET r == evaluate(kf.lr_model, kf.batches.x_test, kf.batches.y_test, pos) IN
          \/ /\ r.ok
             /\ kf' = [fold_append(kf, r.ev) EXCEPT !.indx = @ + 1]
             /\ fold_log' = Append(fold_log,
                                   [run |-> kf.run, indx |-> kf.indx,
                                    train_indices |-> train_indices_of(kf.test_folds, kf.indx),
                                    test_indices |-> test_indices_of(kf.test_folds, kf.indx),
                                    fitted_on |-> DOMAIN kf.lr_model.x_fit,
                                    scored_on |-> DOMAIN kf.batches.x_test,
                                    ev |-> r.ev])
             /\ pc' = next_fold_pc(kf.indx)
             /\ UNCHANGED err
          \/ /\ ~r.ok
             /\ Raise("ValueError")
             /\ UNCHANGED <<kf, fold_log>>
    /\ steps' = Append(steps, Step("evaluate", kf.run, kf.indx))
    /\ UNCHANGED <<globals, cd, reads, passed, postvars>>

\* lines 237-241 and the assignment of line 285 or 305
KfReturn ==
    /\ pc = "kf_mean"
    /\ IF kf.run = "count"
       THEN /\ count_eval' = kfold_result(kf)
            /\ pc' = "report_count"
            /\ UNCHANGED tfidf_eval
       ELSE /\ tfidf_eval' = kfold_result(kf)
            /\ pc' = "report_tfidf"
            /\ UNCHANGED count_eval
    /\ kf' = None
    /\ steps' = Append(steps, Step("return_eval", kf.run, 0))
    /\ UNCHANGED <<err, dep_fnames, non_dep_fnames, data, labels, X_counts, X_tfidf,
                   cd, reads, passed, fold_log, postvars>>

\* lines 288-292
ReportCount ==
    /\ pc = "report_count"
    /\ pc' = "tfidf_vectors"
    /\ steps' = Append(steps, Step("report", "count", 0))
    /\ UNCHANGED <<err, globals, cd, kf, reads, passed, fold_log, postvars>>

\* lines 307-311, after which the script ends
ReportTfidf ==
    /\ pc = "report_tfidf"
    /\ pc' = "done"
    /\ steps' = Append(steps, Step("report", "tfidf", 0))
    /\ UNCHANGED <<err, globals, cd, kf, reads, passed, fold_log, postvars>>

Next ==
    \/ ListDep
    \/ ListNonDep
    \/ ConstructShuffle
    \/ ConstructLoop
    \/ ConstructReturn
    \/ MakeLabels
    \/ MakeCountVectors
    \/ KfSplit
    \/ KfTrain
    \/ KfEvaluate
    \/ KfReturn
    \/ ReportCount
    \/ MakeTfidfVectors
    \/ ReportTfidf

Spec == Init /\ [][Next]_vars

(***************************************************************************)
(* Specification of process_post alone: any file of at most MaxFileLen     *)
(* characters over PostAlphabet.                                           *)
(***************************************************************************)
PostAlphabet == {"n", SP, BS, HI, NL}

PostFiles == UNION {[1..k -> PostAlphabet] : k \in 0..MaxFileLen}

PostInit ==
    /\ MainIdle
    /\ post_pc = "call"
    /\ post_in \in PostFiles
    /\ post_out = None

PostCall ==
    /\ post_pc = "call"
    /\ post_out' = process_post(post_in)
    /\ post_pc' = "returned"
    /\ UNCHANGED <<post_in, mainvars>>

PostNext == PostCall

SpecPost == PostInit /\ [][PostNext]_vars

(***************************************************************************)
(* Properties of process_post.                                             *)
(***************************************************************************)
IsBlank(line) == \A i \in 1..Len(line) : line[i] \in Whitespace

NonBlankLines(content) == SelectSeq(readlines(content, <<>>), LAMBDA l : ~IsBlank(l))

RECURSIVE JoinWith(_, _)
JoinWith(ss, sep) ==
    IF ss = <<>> THEN <<>>
    ELSE IF Len(ss) = 1 THEN ss[1]
    ELSE ss[1] \o sep \o JoinWith(Tail(ss), sep)

Decodable(line) == decode_unicode_escape(line).ok

Normalised(line) == strip(encode_utf8(decode_unicode_escape(line).val))

\* C3 as stated: process_post returns the stripped non-blank lines of the
\* file, in file order, joined by single spaces (nothing after the last
\* line), and the empty string when the file has no non-blank line.
C3_Original ==
    (post_pc = "returned" /\ post_out.ok) =>
        LET nb == NonBlankLines(post_in) IN
        post_out.text = JoinWith([i \in 1..Len(nb) |-> strip(nb[i])], <<SP>>)

\* C3 amended: process_post returns, for each non-blank line in file order,
\* the line after unicode-escape decoding and UTF-8 re-encoding, stripped of
\* surrounding whitespace and followed by one space (also after the last
\* line); blank lines are skipped, a file with no non-blank line yields the
\* empty string, and it raises exactly when a non-blank line fails to decode.
C3_Amended ==
    post_pc = "returned" =>
        LET nb == NonBlankLines(post_in) IN
        IF \E i \in 1..Len(nb) : ~Decodable(nb[i])
        THEN ~post_out.ok
        ELSE /\ post_out.ok
             /\ post_out.text = Flatten([i \in 1..Len(nb) |-> Normalised(nb[i]) \o <<SP>>])

\* C3 witness: a file with a blank line between two non-blank lines was read.
C3_Witness ==
    /\ post_pc = "returned"
    /\ post_out.ok
    /\ Len(NonBlankLines(post_in)) >= 2
    /\ Len(readlines(post_in, <<>>)) > Len(NonBlankLines(post_in))

(***************************************************************************)
(* Properties of the loader.                                               *)
(***************************************************************************)
CountOf(seq, v) == Cardinality({i \in 1..Len(seq) : seq[i] = v})

IsPermutation(s, t) ==
    /\ Len(s) = Len(t)
    /\ \A v \in Range(s) \cup Range(t) : CountOf(s, v) = CountOf(t, v)

\* C1: the Dataset construct_data returns has as many texts as targets as
\* paths, namely the number of files listed in the two directories, and
\* every target is 0 or 1.
C1_DatasetLengths ==
    data # None =>
        /\ Len(data.data) = Len(dep_fnames) + Len(non_dep_fnames)
        /\ Len(data.target) = Len(data.data)
        /\ Len(data.filepath) = Len(data.data)
        /\ \A i \in 1..Len(data.target) : data.target[i] \in {0, 1}

\* C1 witness: a Dataset built from two non-empty directories.
C1_Witness ==
    /\ data # None
    /\ Len(dep_fnames) = MaxFiles
    /\ Len(non_dep_fnames) = MaxFiles

\* C2 as stated: also when a name occurs in both directories, the number of
\* targets 0 is the number of files of the depression directory and the
\* number of targets 1 that of the non-depression directory.
C2_LabelsByDirectory ==
    data # None =>
        /\ CountOf(data.target, 0) = Len(dep_fnames)
        /\ CountOf(data.target, 1) = Len(non_dep_fnames)

\* C10 as stated: data.filenames is a permutation of the two listings, the
\* lists are aligned (the path of record i is its name joined to the
\* depression directory exactly when its target is 0, to the other directory
\* exactly when it is 1, and its text is the text of the file at that path),
\* and every file of both directories is read exactly once.
C10_AlignedAndReadOnce ==
    data # None =>
        /\ IsPermutation(data.filenames, dep_fnames \o non_dep_fnames)
        /\ \A i \in 1..Len(data.filenames) :
              /\ data.target[i] = 0 <=> data.filepath[i] = path_join(DEP, data.filenames[i])
              /\ data.target[i] = 1 <=> data.filepath[i] = path_join(NON_DEP, data.filenames[i])
              /\ data.data[i] = process_post(FileContent(data.filepath[i][1],
                                                         data.filepath[i][2])).text
        /\ \A j \in 1..Len(dep_fnames) : CountOf(reads, path_join(DEP, dep_fnames[j])) = 1
        /\ \A j \in 1..Len(non_dep_fnames) :
              CountOf(reads, path_join(NON_DEP, non_dep_fnames[j])) = 1

\* C5: when listing a directory or reading a file raises, the run is over:
\* construct_data has returned no Dataset, no vectorizer and no
\* classify_kfold was or will be called.
C5_LoadFailureAborts ==
    (err # None /\ err.at \in {"list_dep", "list_non_dep", "cd_loop"}) =>
        /\ pc = "error"
        /\ ~ENABLED Next
        /\ data = None
        /\ X_counts = <<>> /\ X_tfidf = <<>>
        /\ kf = None /\ count_eval = None /\ tfidf_eval = None
        /\ \A k \in 1..Len(steps) : steps[k].op \notin {"vectorize", "classify_kfold"}

\* C5 witness: a file could not be read after another one had been read.
C5_Witness ==
    /\ pc = "error"
    /\ err.exc = "IOError"
    /\ cd # None
    /\ Len(cd.data) >= 1

\* C4 as stated: with an empty depression directory and a non-empty
\* non-depression directory the run fails before train_lr_model is called.
C4_ErrorBeforeTraining ==
    (pc \notin {"list_dep", "list_non_dep"} /\ dep_fnames = <<>> /\ non_dep_fnames # <<>>) =>
        /\ pc # "done"
        /\ \A k \in 1..Len(steps) : steps[k].op # "train"

(***************************************************************************)
(* Properties of classify_kfold and of the script.                         *)
(***************************************************************************)
\* the folds of a run that were evaluated so far, in order
FoldsOf(run) == SelectSeq(fold_log, LAMBDA e : e.run = run)

ResultOf(run) == IF run = "count" THEN count_eval ELSE tfidf_eval

Runs == {"count", "tfidf"}

RatEq(a, b) == a.num * b.den = b.num * a.den

Stratifiable(y) ==
    /\ KFOLD_SPLITS >= 2
    /\ \A c \in {0, 1} : class_count(y, c) >= KFOLD_SPLITS

\* C6: with a fold count between 2 and the size of the smaller class, the
\* train and test indices of every fold partition the record indices, the
\* model evaluated in a fold was fitted on the fold's train indices only and
\* scored on its test indices only, and once the run is over every record
\* index was in the test set of exactly one fold.
C6_FoldsPartition ==
    Stratifiable(labels) =>
        /\ \A k \in 1..Len(fold_log) :
              LET e == fold_log[k] IN
              /\ e.train_indices \cap e.test_indices = {}
              /\ e.train_indices \cup e.test_indices = 1..Len(labels)
              /\ e.fitted_on = e.train_indices
              /\ e.scored_on = e.test_indices
        /\ (pc = "kf_eval" =>
              /\ DOMAIN kf.lr_model.x_fit = train_indices_of(kf.test_folds, kf.indx)
              /\ DOMAIN kf.lr_model.y_fit = train_indices_of(kf.test_folds, kf.indx)
              /\ DOMAIN kf.batches.y_test = test_indices_of(kf.test_folds, kf.indx))
        /\ \A run \in Runs :
              ResultOf(run) # None =>
                  \A i \in 1..Len(labels) :
                      Cardinality({k \in 1..Len(FoldsOf(run)) :
                                      i \in FoldsOf(run)[k].test_indices}) = 1

\* C6 witness: both runs went through all folds of a stratifiable corpus.
C6_Witness ==
    /\ pc = "done"
    /\ Stratifiable(labels)
    /\ Len(fold_log) = 2 * KFOLD_SPLITS

\* C7: the bunch classify_kfold returns holds, for precision, recall and
\* f-score, exactly KFOLD_SPLITS entries, the i-th being fold i's value, and
\* its cv and roc are the arithmetic means of the folds' accuracies and
\* ROC-AUC values, every fold counted once.
C7_PerFoldAndMeans ==
    \A run \in Runs :
        ResultOf(run) # None =>
            LET r == ResultOf(run)
                f == FoldsOf(run)
            IN
            /\ Len(f) = KFOLD_SPLITS
            /\ \A i \in 1..Len(f) : f[i].indx = i
            /\ r.precision = [i \in 1..KFOLD_SPLITS |-> f[i].ev.precision]
            /\ r.recall = [i \in 1..KFOLD_SPLITS |-> f[i].ev.recall]
            /\ r.fscore = [i \in 1..KFOLD_SPLITS |-> f[i].ev.fscore]
            /\ LET cvs == RatSum([i \in 1..KFOLD_SPLITS |-> f[i].ev.cv])
                   rocs == RatSum([i \in 1..KFOLD_SPLITS |-> f[i].ev.roc])
               IN
               /\ RatEq(r.cv, Rat(cvs.num, cvs.den * KFOLD_SPLITS))
               /\ RatEq(r.roc, Rat(rocs.num, rocs.den * KFOLD_SPLITS))

\* C7 witness: a returned bunch whose folds differ in every score.
C7_Witness ==
    /\ count_eval # None
    /\ count_eval.precision[1] # count_eval.precision[2]
    /\ count_eval.recall[1] # count_eval.recall[2]
    /\ count_eval.recall[1] # count_eval.precision[1]
    /\ ~RatEq(FoldsOf("count")[1].ev.cv, FoldsOf("count")[2].ev.cv)
    /\ ~RatEq(FoldsOf("count")[1].ev.roc, FoldsOf("count")[2].ev.roc)

\* the steps of one classify_kfold run
RunSteps(run) ==
    <<Step("vectorize", run, 0), Step("classify_kfold", run, 0)>>
    \o Flatten([i \in 1..KFOLD_SPLITS |-> <<Step("train", run, i), Step("evaluate", run, i)>>])
    \o <<Step("return_eval", run, 0), Step("report", run, 0)>>

\* the steps of an error-free run over n files
ExpectedSteps(n) ==
    <<Step("listdir", DEP, 0), Step("listdir", NON_DEP, 0), Step("construct_data", "", 0)>>
    \o [i \in 1..n |-> Step("process_post", "", i)]
    \o <<Step("return_data", "", 0), Step("labels", "", 0)>>
    \o RunSteps("count") \o RunSteps("tfidf")

IsPrefix(s, t) == Len(s) <= Len(t) /\ \A i \in 1..Len(s) : s[i] = t[i]

\* the number of files of the run, as far as it is known
FilesSeen ==
    IF pc \in {"list_dep", "list_non_dep", "construct_data"} THEN 0
    ELSE Len(dep_fnames) + Len(non_dep_fnames)

LinearOrder ==
    /\ (err = None /\ pc \notin {"list_dep", "list_non_dep", "construct_data"}) =>
           IsPrefix(steps, ExpectedSteps(FilesSeen))
    /\ (err = None /\ pc \in {"list_dep", "list_non_dep", "construct_data"}) =>
           IsPrefix(steps, ExpectedSteps(0))
    /\ pc = "done" => (err = None /\ steps = ExpectedSteps(FilesSeen))
    /\ (err = None /\ steps = ExpectedSteps(FilesSeen)) => pc = "done"
    /\ pc = "error" <=> err # None

\* C8: an error-free run makes its steps in one linear order, none twice
\* (load; count vectors, KFOLD_SPLITS times train then evaluate, count
\* report; the same for tf-idf), and the run ends: every step adds one step
\* to that finite order and no state before the end is stuck.
C8_LinearAndTerminates ==
    /\ []LinearOrder
    /\ [](pc \notin {"done", "error"} => ENABLED Next)
    /\ [][steps' = Append(steps, steps'[Len(steps')])]_vars

\* C8 witness: a run that reached its end.
C8_Witness ==
    /\ pc = "done"
    /\ steps = ExpectedSteps(2 * MaxFiles)

\* C9: once construct_data has returned, the Dataset and the label vector
\* never change, a returned evaluation never changes, and both vectorizers
\* and both classify_kfold calls are given the texts and the labels of the
\* Dataset, in its order.
C9_Frame ==
    /\ [][/\ data # None => data' = data
          /\ pc \notin {"list_dep", "list_non_dep", "construct_data", "cd_loop", "labels"}
                => labels' = labels
          /\ count_eval # None => count_eval' = count_eval
          /\ tfidf_eval # None => tfidf_eval' = tfidf_eval]_vars
    /\ [](\A k \in 1..Len(passed) :
             /\ passed[k].fn = "vectorize" => passed[k].texts = data.data
             /\ passed[k].fn = "classify_kfold" =>
                   (passed[k].labels = data.target /\ passed[k].labels = labels))

\* C9 witness: the tf-idf run is over and the count run's result is still there.
C9_Witness ==
    /\ pc = "done"
    /\ count_eval # None
    /\ tfidf_eval # None
    /\ count_eval # tfidf_eval
    /\ Len(passed) = 4

====
